---- MODULE Spec2Model ----
(***************************************************************************)
(* Model of subsetFasta: the FastaFile index (fasta.py), format_sequence   *)
(* and the subsetting run (main.py).                                       *)
(*                                                                         *)
(* Text is a sequence of one-character strings.  Offsets are Python's:     *)
(* 0-based, spans half open, so buffer[b:e] is SubSeq(buffer, b+1, e).     *)
(***************************************************************************)
EXTENDS Integers, Sequences, FiniteSets, TLC

VARIABLES
    fasta,        \* the FastaFile object: [_fbuff, _id_offsets]
    reads,        \* number of read calls that returned normally on `fasta`
    file,         \* records of the file most recently loaded by read
    ret,          \* outcome of the most recent call
    test_reader,  \* second FastaFile of the round trip (test_reader)
    tmpfile,      \* text of the temporary file of the round trip
    seq_in,       \* the seq argument handed to format_sequence
    mpc,          \* position of main
    args,         \* parsed command line of main
    select_ids,   \* main: select_ids
    unique_select_ids, \* main: unique_select_ids
    entries,      \* main: entries
    ofile         \* the output file of main

vars == <<fasta, reads, file, ret, test_reader, tmpfile, seq_in,
          mpc, args, select_ids, unique_select_ids, entries, ofile>>

libvars == <<fasta, reads, file, ret, test_reader, tmpfile>>
mainvars == <<mpc, args, select_ids, unique_select_ids, entries, ofile>>

-----------------------------------------------------------------------------
(* Bounds *)

MaxRecords == 3        \* records per archive, library runs
MaxRereadRecords == 1  \* records per archive when read is called repeatedly
MaxReads == 2          \* read calls on one FastaFile when read is repeated
MaxMainRecords == 2    \* records per archive, subsetting run
MaxIds == 3            \* positional ids on the command line
MaxSeqLen == 5         \* length of the argument of format_sequence
MaxWidth == 3          \* max_line_len values tried: 1..MaxWidth

-----------------------------------------------------------------------------
(* Characters *)

NL == "\n"

Letters == {"A", "B", "C", "d", "e", "g", "i", "p", "r", "s", "t"}
Digits == {"1"}
Spaces == {" ", NL}
Alphabet == Letters \cup Digits \cup Spaces \cup {">", "|", "-", "_"}

\* \w
WordChars == Letters \cup Digits \cup {"_"}
\* letters and whitespace, the class of group 3
SeqChars == Letters \cup Spaces
\* .
DotChars == Alphabet \ {NL}

min(a, b) == IF a <= b THEN a ELSE b

\* s[b:e] for 0 <= b, 0 <= e: offsets past the end are clamped
Slice(s, b, e) == SubSeq(s, min(b, Len(s)) + 1, min(e, Len(s)))

\* re.sub(r'\s', '', s)
StripWs(s) == SelectSeq(s, LAMBDA c : c \notin Spaces)

-----------------------------------------------------------------------------
\* entry_re: ">", [st], [rp], "|", group 1 = one or more \w, "|",
\* group 2 = any run of non-newline characters, newline,
\* group 3 = any run of letters and whitespace; all runs greedy.
\* The trailing optional lookahead for ">" consumes nothing and never fails.

\* end (0-based, exclusive) of the longest run of characters of S from p
RunEnd(buf, p, S) ==
    CHOOSE j \in p..Len(buf) :
        /\ \A k \in (p + 1)..j : buf[k] \in S
        /\ (j = Len(buf) \/ buf[j + 1] \notin S)

\* a failed match (Python's None)
NoMatch == [ok |-> FALSE]

\* the match of entry_re anchored at offset p, or NoMatch
entry_re(buf, p) ==
    IF ~ /\ p + 4 <= Len(buf)
         /\ buf[p + 1] = ">"
         /\ buf[p + 2] \in {"s", "t"}
         /\ buf[p + 3] \in {"r", "p"}
         /\ buf[p + 4] = "|"
    THEN NoMatch
    ELSE LET a == RunEnd(buf, p + 4, WordChars) IN
         IF ~ (a > p + 4 /\ a < Len(buf) /\ buf[a + 1] = "|")
         THEN NoMatch
         ELSE LET d == RunEnd(buf, a + 1, DotChars) IN
              IF ~ (d < Len(buf))
              THEN NoMatch
              ELSE LET s == RunEnd(buf, d + 1, SeqChars) IN
                   [ok |-> TRUE,
                    span |-> <<p, s>>,
                    g1 |-> SubSeq(buf, p + 5, a),
                    g2 |-> SubSeq(buf, a + 2, d),
                    g3 |-> SubSeq(buf, d + 2, s)]

\* re.finditer(entry_re, buf) from offset p: leftmost, non-overlapping
RECURSIVE finditer(_, _)
finditer(buf, p) ==
    IF p >= Len(buf) THEN << >>
    ELSE LET m == entry_re(buf, p) IN
         IF ~ m.ok THEN finditer(buf, p + 1)
         ELSE <<m>> \o finditer(buf, m.span[2])

\* entry_re.search(s): the first match or NoMatch
search(s) ==
    LET ms == finditer(s, 0) IN IF ms = << >> THEN NoMatch ELSE ms[1]

-----------------------------------------------------------------------------
(* dict, kept as the sequence of its (key, value) pairs in insertion order *)

DictKeySet(d) == {d[i].k : i \in 1..Len(d)}
DictGet(d, key) == (CHOOSE i \in 1..Len(d) : d[i].k = key)

\* d[key] = value, first-write-wins variant
DictSetDefault(d, key, value) ==
    IF key \in DictKeySet(d) THEN d
    ELSE Append(d, [k |-> key, v |-> value])

\* d[key] = value where a key set again moves to the end
DictSetMoveToEnd(d, key, value) ==
    Append(SelectSeq(d, LAMBDA e : e.k # key), [k |-> key, v |-> value])

\* d[key] = value: an existing key keeps its place and takes the new value
DictSet(d, key, value) ==
    IF key \in DictKeySet(d)
    THEN [d EXCEPT ![DictGet(d, key)] = [k |-> key, v |-> value]]
    ELSE Append(d, [k |-> key, v |-> value])

-----------------------------------------------------------------------------
(* FastaFile *)

\* FastaFile.__init__
FastaFile == [_fbuff |-> << >>, _id_offsets |-> << >>]

\* the loop of _find_offsets over the matches ms
RECURSIVE StoreSpans(_, _)
StoreSpans(d, ms) ==
    IF ms = << >> THEN d
    ELSE StoreSpans(DictSet(d, ms[1].g1, ms[1].span), Tail(ms))

\* _find_offsets that stores the first match only (re.search for re.finditer)
_find_offsets_first(self) ==
    [self EXCEPT !._id_offsets =
        LET ms == finditer(self._fbuff, 0)
        IN StoreSpans(self._id_offsets, IF ms = << >> THEN ms ELSE <<ms[1]>>)]

\* FastaFile._find_offsets
_find_offsets(self) ==
    [self EXCEPT !._id_offsets = StoreSpans(self._id_offsets, finditer(self._fbuff, 0))]

\* FastaFile.read, given the text of the file
read(self, text) == _find_offsets([self EXCEPT !._fbuff = text])

\* FastaFile.__contains__ / id_exists
id_exists(self, accession) == accession \in DictKeySet(self._id_offsets)

\* outcomes of a call: a returned value or a raised exception
Return(x) == [exc |-> "none", val |-> x]
Raise(e) == [exc |-> e, val |-> << >>]

\* _get_offset without the membership test (dict.get with a default span)
_get_offset_unchecked(self, accession) ==
    IF id_exists(self, accession)
    THEN Return(self._id_offsets[DictGet(self._id_offsets, accession)].v)
    ELSE Return(<<0, 0>>)

\* FastaFile._get_offset
_get_offset(self, accession) ==
    IF ~ id_exists(self, accession)
    THEN Raise("KeyError")
    ELSE Return(self._id_offsets[DictGet(self._id_offsets, accession)].v)

\* _get_entry returning the raw group 3
_get_entry_raw(self, accession, begin, end) ==
    LET m == search(Slice(self._fbuff, begin, end)) IN
    IF ~ m.ok THEN Raise("AssertionError")
    ELSE IF m.g1 # accession THEN Raise("AssertionError")
    ELSE Return([description |-> m.g2, seq |-> m.g3])

\* FastaFile._get_entry
_get_entry(self, accession, begin, end) ==
    LET m == search(Slice(self._fbuff, begin, end)) IN
    IF ~ m.ok THEN Raise("AssertionError")
    ELSE IF m.g1 # accession THEN Raise("AssertionError")
    ELSE Return([description |-> m.g2, seq |-> StripWs(m.g3)])

\* FastaFile.get_entry
get_entry(self, accession) ==
    LET o == _get_offset(self, accession) IN
    IF o.exc # "none" THEN o
    ELSE _get_entry(self, accession, o.val[1], o.val[2])

\* FastaFile.get_sequence
get_sequence(self, accession) ==
    LET o == _get_offset(self, accession) IN
    IF o.exc # "none" THEN o
    ELSE LET e == _get_entry(self, accession, o.val[1], o.val[2]) IN
         IF e.exc # "none" THEN e ELSE Return(e.val.seq)

\* FastaFile.iter_ids, run to exhaustion: the list of (i, k)
iter_ids(self) ==
    [i \in 1..Len(self._id_offsets) |-> [i |-> i - 1, k |-> self._id_offsets[i].k]]

\* FastaFile.iter_items, run to exhaustion: the list of (i, k, entry), or
\* the assertion raised by the first entry that fails it
iter_items(self) ==
    LET d == self._id_offsets
        e(i) == _get_entry(self, d[i].k, d[i].v[1], d[i].v[2])
    IN IF \E i \in 1..Len(d) : e(i).exc # "none"
       THEN Raise("AssertionError")
       ELSE Return([i \in 1..Len(d) |->
                       [i |-> i - 1, k |-> d[i].k, entry |-> e(i).val]])

-----------------------------------------------------------------------------
(* format_sequence.  max_line_len = 0 stands for None (no width given).    *)

\* the for loop of format_sequence from `index` on, `acc` being ret so far
RECURSIVE FormatLoop(_, _, _, _)
FormatLoop(seq_f, index, max_line_len, acc) ==
    IF index >= Len(seq_f) THEN acc
    ELSE LET chunk == Slice(seq_f, index, min(Len(seq_f), index + max_line_len))
         IN FormatLoop(seq_f, index + max_line_len, max_line_len,
                       IF index = 0 THEN chunk ELSE acc \o <<NL>> \o chunk)

\* format_sequence that ends every line, the last included, with a line break
format_sequence_trailing(seq, max_line_len) ==
    LET seq_f == StripWs(seq) IN
    IF max_line_len = 0 THEN seq_f
    ELSE FormatLoop(seq_f, 0, max_line_len, << >>) \o <<NL>>

\* format_sequence
format_sequence(seq, max_line_len) ==
    LET seq_f == StripWs(seq) IN
    IF max_line_len = 0 THEN seq_f
    ELSE FormatLoop(seq_f, 0, max_line_len, << >>)

-----------------------------------------------------------------------------
(* Input files *)

Rec(tag, acc, desc, body) == [tag |-> tag, acc |-> acc, desc |-> desc, body |-> body]

\* the records an archive is made of
Records ==
    { Rec(<<"s", "p">>, <<"A">>, <<"d">>, <<"A", "B", NL>>),
      Rec(<<"t", "r">>, <<"B">>, << >>, <<"A", NL, "B", NL>>),
      Rec(<<"s", "p">>, <<"A">>, <<"e">>, << >>),
      Rec(<<"s", "p">>, <<"A", "-", "B">>, <<"d">>, <<"A", "B", NL>>),
      Rec(<<"g", "i">>, <<"C">>, <<"d">>, <<"A", "B", NL>>),
      Rec(<<"s", "p">>, <<"C", "1">>, <<"d">>, <<"A", "-", "B", NL>>),
      Rec(<<"s", "p">>, <<"C">>, <<"d", " ", "e">>, <<"B", "A", NL>>) }

\* the accessions asked for
QueryIds == {r.acc : r \in Records}

\* the text of one record: header line, then its sequence lines
Render(r) == <<">">> \o r.tag \o <<"|">> \o r.acc \o <<"|">> \o r.desc \o <<NL>> \o r.body

\* the text of a file holding the records f
RECURSIVE Flatten(_)
Flatten(f) == IF f = << >> THEN << >> ELSE Render(f[1]) \o Flatten(Tail(f))

SeqsUpTo(S, n) == UNION {[1..k -> S] : k \in 0..n}

Archives == SeqsUpTo(Records, MaxRecords)

\* offset of the ">" of record i of the file f
Begin(f, i) == Len(Flatten(SubSeq(f, 1, i - 1)))

-----------------------------------------------------------------------------
(* Calls on the FastaFile *)

Ret(op, arg, w, res) == [op |-> op, arg |-> arg, w |-> w, res |-> res]
NoRet == Ret("none", << >>, 0, Return(<< >>))

\* fasta.read(fname), fname holding the records f
Read(f) ==
    /\ fasta' = read(fasta, Flatten(f))
    /\ reads' = reads + 1
    /\ file' = f
    /\ ret' = Ret("read", << >>, 0, Return(<< >>))
    /\ UNCHANGED <<test_reader, tmpfile, seq_in, mainvars>>

\* fasta.read(fname) where open or read raises: nothing is assigned
ReadFail ==
    /\ ret' = Ret("read", << >>, 0, Raise("IOError"))
    /\ UNCHANGED <<fasta, reads, file, test_reader, tmpfile, seq_in, mainvars>>

Call(r) ==
    /\ ret' = r
    /\ UNCHANGED <<fasta, reads, file, test_reader, tmpfile, seq_in, mainvars>>

IdExists(a) == Call(Ret("id_exists", a, 0, Return(id_exists(fasta, a))))
GetEntry(a) == Call(Ret("get_entry", a, 0, get_entry(fasta, a)))
GetSequence(a) == Call(Ret("get_sequence", a, 0, get_sequence(fasta, a)))
IterIds == Call(Ret("iter_ids", << >>, 0, Return(iter_ids(fasta))))
IterItems == Call(Ret("iter_items", << >>, 0, iter_items(fasta)))

\* one record as test_read_formated_sequences writes it
WriteRecord(accession, description, seq_f) ==
    <<">", "s", "p", "|">> \o accession \o <<"|">> \o description \o <<NL>> \o seq_f \o <<NL>>

RECURSIVE WriteItems(_, _)
WriteItems(items, line_len) ==
    IF items = << >> THEN << >>
    ELSE WriteRecord(items[1].k, items[1].entry.description,
                     format_sequence(items[1].entry.seq, line_len))
         \o WriteItems(Tail(items), line_len)

\* one pass of the loop of test_read_formated_sequences: write every item of
\* fasta to the temporary file, read that file into a new FastaFile
ReadFormatted(line_len) ==
    /\ reads > 0
    /\ LET items == iter_items(fasta) IN
       IF items.exc # "none"
       THEN /\ tmpfile' = << >>
            /\ test_reader' = FastaFile
            /\ ret' = Ret("read_formatted", << >>, line_len, items)
       ELSE /\ tmpfile' = WriteItems(items.val, line_len)
            /\ test_reader' = read(FastaFile, tmpfile')
            /\ ret' = Ret("read_formatted", << >>, line_len, Return(<< >>))
    /\ UNCHANGED <<fasta, reads, file, seq_in, mainvars>>

Widths == 0..MaxWidth

NoArgs == [fasta |-> << >>, file |-> [given |-> FALSE, lines |-> << >>],
           ids |-> << >>, multiLine |-> FALSE]

\* the output file: whether it exists, its text, and how often it was opened
\* for writing
NoFile == [exists |-> FALSE, text |-> << >>, opens |-> 0]
OldFile == [exists |-> TRUE, text |-> <<"x", NL>>, opens |-> 0]

InitCommon ==
    /\ fasta = FastaFile
    /\ reads = 0
    /\ file = << >>
    /\ ret = NoRet
    /\ test_reader = FastaFile
    /\ tmpfile = << >>

Init ==
    /\ InitCommon
    /\ seq_in = << >>
    /\ mpc = "idle"
    /\ args = NoArgs
    /\ select_ids = << >>
    /\ unique_select_ids = << >>
    /\ entries = << >>
    /\ ofile = NoFile

\* the lifecycle of the tests and of main: construct, read once, query
Load == reads = 0 /\ \E f \in Archives : Read(f)

Next ==
    \/ Load
    \/ ReadFail
    \/ \E a \in QueryIds : IdExists(a)
    \/ \E a \in QueryIds : GetEntry(a)
    \/ \E a \in QueryIds : GetSequence(a)
    \/ IterIds
    \/ IterItems

Spec == Init /\ [][Next]_vars

\* test_read_formated_sequences: read the archive, then one pass per width
NextRoundTrip ==
    \/ Load
    \/ \E w \in Widths : ReadFormatted(w)

SpecRoundTrip == Init /\ [][NextRoundTrip]_vars

\* read called again and again on one FastaFile, on any files
RereadRecords ==
    { Rec(<<"s", "p">>, <<"A">>, <<"d">>, <<"A", "B", NL>>),
      Rec(<<"t", "r">>, <<"B">>, << >>, <<"A", NL, "B", NL>>),
      Rec(<<"s", "p">>, <<"C", "1">>, <<"d">>, <<"A", "-", "B", NL>>) }

RereadArchives == SeqsUpTo(RereadRecords, MaxRereadRecords)

Reread == reads < MaxReads /\ \E f \in RereadArchives : Read(f)

NextReread ==
    \/ Reread
    \/ ReadFail
    \/ \E a \in QueryIds : IdExists(a)
    \/ \E a \in QueryIds : GetEntry(a)
    \/ \E a \in QueryIds : GetSequence(a)
    \/ IterItems

SpecReread == Init /\ [][NextReread]_vars

\* format_sequence on its own
FormatChars == {"A", "B", " ", NL}

InitFormat ==
    /\ InitCommon
    /\ seq_in \in SeqsUpTo(FormatChars, MaxSeqLen)
    /\ mpc = "idle"
    /\ args = NoArgs
    /\ select_ids = << >>
    /\ unique_select_ids = << >>
    /\ entries = << >>
    /\ ofile = NoFile

Format(w) == Call(Ret("format_sequence", << >>, w, Return(format_sequence(seq_in, w))))

NextFormat == \E w \in Widths : Format(w)

SpecFormat == InitFormat /\ [][NextFormat]_vars

-----------------------------------------------------------------------------
(* main.py *)

WrapWidth == 60

\* str.strip()
RECURSIVE LStrip(_)
LStrip(x) == IF x # << >> /\ x[1] \in Spaces THEN LStrip(Tail(x)) ELSE x
RECURSIVE RStrip(_)
RStrip(x) ==
    IF x # << >> /\ x[Len(x)] \in Spaces THEN RStrip(SubSeq(x, 1, Len(x) - 1)) ELSE x
Strip(x) == RStrip(LStrip(x))

\* readIdsFromFile, given the lines of the file
readIdsFromFile(lines) == [i \in 1..Len(lines) |-> Strip(lines[i])]

\* the loop that keeps the first occurrence of every id
RECURSIVE UniqueLoop(_, _, _)
UniqueLoop(ids, seen_ids, unique) ==
    IF ids = << >> THEN unique
    ELSE UniqueLoop(Tail(ids), seen_ids \cup {ids[1]},
                    IF ids[1] \notin seen_ids THEN Append(unique, ids[1]) ELSE unique)

\* the list of entries that skips the ids get_entry does not find
RECURSIVE EntriesLenient(_, _)
EntriesLenient(self, ids) ==
    IF ids = << >> THEN Return(<< >>)
    ELSE LET e == get_entry(self, ids[1])
             rest == EntriesLenient(self, Tail(ids))
         IN IF e.exc = "KeyError" THEN rest
            ELSE IF e.exc # "none" THEN [exc |-> e.exc, val |-> ids[1]]
            ELSE IF rest.exc # "none" THEN rest
            ELSE Return(<<<<ids[1], e.val.description, e.val.seq>>>> \o rest.val)

\* [(protein_id, *fasta.get_entry(protein_id)) for protein_id in ids]:
\* the list of tuples, or the exception of the first id that raises, with
\* that id
RECURSIVE EntriesOf(_, _)
EntriesOf(self, ids) ==
    IF ids = << >> THEN Return(<< >>)
    ELSE LET e == get_entry(self, ids[1]) IN
         IF e.exc # "none" THEN [exc |-> e.exc, val |-> ids[1]]
         ELSE LET rest == EntriesOf(self, Tail(ids)) IN
              IF rest.exc # "none" THEN rest
              ELSE Return(<<<<ids[1], e.val.description, e.val.seq>>>> \o rest.val)

\* the loop of writeEntries: every tuple is unpacked into accession, db,
\* description, seq, which raises ValueError unless it has four members;
\* val is the text written before the loop ended
RECURSIVE WriteLoop(_, _, _)
WriteLoop(es, multi_line, text) ==
    IF es = << >> THEN Return(text)
    ELSE IF Len(es[1]) # 4 THEN [exc |-> "ValueError", val |-> text]
    ELSE LET accession == es[1][1]
             db == es[1][2]
             description == es[1][3]
             seq == es[1][4]
         IN WriteLoop(Tail(es), multi_line,
                text \o <<">">> \o db \o <<"|">> \o accession \o <<"|">> \o description
                     \o <<NL>> \o (IF multi_line THEN format_sequence(seq, WrapWidth) ELSE seq)
                     \o <<NL>>)

\* writeEntries after open(fname, 'w'): the text of the file and the outcome
writeEntries(es, multi_line) == WriteLoop(es, multi_line, << >>)

MainRecords ==
    { Rec(<<"s", "p">>, <<"A">>, <<"d">>, <<"A", "B", NL>>),
      Rec(<<"t", "r">>, <<"B">>, << >>, <<"A", NL, "B", NL>>) }

MainArchives == SeqsUpTo(MainRecords, MaxMainRecords)

\* ids on the command line and in the side file; D is in no archive
IdPool == {<<"A">>, <<"B">>, <<"D">>}

SideFiles ==
    { [given |-> FALSE, lines |-> << >>],
      [given |-> TRUE, lines |-> << >>],
      [given |-> TRUE, lines |-> << <<"B", NL>> >>],
      [given |-> TRUE, lines |-> << <<" ", "A", NL>>, <<"B">> >>] }

ArgSets ==
    [fasta : MainArchives, file : SideFiles, ids : SeqsUpTo(IdPool, MaxIds),
     multiLine : BOOLEAN]

\* parse_args and ofname
MainArgs ==
    /\ mpc = "start"
    /\ \E a \in ArgSets : args' = a
    /\ mpc' = "parsed"
    /\ UNCHANGED <<libvars, seq_in, select_ids, unique_select_ids, entries, ofile>>

\* select_ids and unique_select_ids
MainSelect ==
    /\ mpc = "parsed"
    /\ select_ids' = (IF args.file.given THEN readIdsFromFile(args.file.lines) ELSE << >>)
                        \o args.ids
    /\ unique_select_ids' = UniqueLoop(select_ids', {}, << >>)
    /\ mpc' = "selected"
    /\ UNCHANGED <<libvars, seq_in, args, entries, ofile>>

\* fasta = FastaFile(); fasta.read(args.fasta)
MainRead ==
    /\ mpc = "selected"
    /\ fasta' = read(FastaFile, Flatten(args.fasta))
    /\ reads' = 1
    /\ file' = args.fasta
    /\ ret' = Ret("read", << >>, 0, Return(<< >>))
    /\ mpc' = "read"
    /\ UNCHANGED <<test_reader, tmpfile, seq_in, args, select_ids, unique_select_ids,
                   entries, ofile>>

\* entries = [... for protein_id in select_ids]; an exception ends main
MainEntries ==
    /\ mpc = "read"
    /\ LET r == EntriesOf(fasta, select_ids) IN
       IF r.exc # "none"
       THEN /\ ret' = Ret("main", r.val, 0, Raise(r.exc))
            /\ mpc' = "failed"
            /\ UNCHANGED entries
       ELSE /\ entries' = r.val
            /\ ret' = Ret("entries", << >>, 0, Return(<< >>))
            /\ mpc' = "extracted"
    /\ UNCHANGED <<fasta, reads, file, test_reader, tmpfile, seq_in, args, select_ids,
                   unique_select_ids, ofile>>

\* writeEntries(ofname, entries, multi_line=args.multiLine): open(fname, 'w')
\* creates or truncates the file, the loop writes, the with block closes
MainWrite ==
    /\ mpc = "extracted"
    /\ LET w == writeEntries(entries, args.multiLine) IN
       /\ ofile' = [exists |-> TRUE, text |-> w.val, opens |-> ofile.opens + 1]
       /\ IF w.exc # "none"
          THEN ret' = Ret("main", << >>, 0, Raise(w.exc)) /\ mpc' = "failed"
          ELSE ret' = Ret("main", << >>, 0, Return(<< >>)) /\ mpc' = "done"
    /\ UNCHANGED <<fasta, reads, file, test_reader, tmpfile, seq_in, args, select_ids,
                   unique_select_ids, entries>>

InitMain ==
    /\ InitCommon
    /\ seq_in = << >>
    /\ mpc = "start"
    /\ args = NoArgs
    /\ select_ids = << >>
    /\ unique_select_ids = << >>
    /\ entries = << >>
    /\ ofile \in {NoFile, OldFile}

NextMain ==
    \/ MainArgs
    \/ MainSelect
    \/ MainRead
    \/ MainEntries
    \/ MainWrite

SpecMain == InitMain /\ [][NextMain]_vars

-----------------------------------------------------------------------------
(* Properties of the index after construct-then-read *)

Keys(self) == DictKeySet(self._id_offsets)
SpanOf(self, a) == self._id_offsets[DictGet(self._id_offsets, a)].v
Accs(f) == {f[i].acc : i \in 1..Len(f)}
DistinctAccs(f) == \A i, j \in 1..Len(f) : f[i].acc = f[j].acc => i = j

\* a record of the shape the specification describes: two-letter tag,
\* accession a non-empty token without whitespace, one-line description,
\* sequence lines of letters
WellFormed(r) ==
    /\ Len(r.tag) = 2 /\ \A i \in 1..2 : r.tag[i] \in Letters
    /\ r.acc # << >> /\ \A i \in 1..Len(r.acc) : r.acc[i] \notin Spaces \cup {"|"}
    /\ \A i \in 1..Len(r.desc) : r.desc[i] # NL
    /\ \A i \in 1..Len(r.body) : r.body[i] \in SeqChars

\* a record whose header has the tag and accession entry_re accepts
Indexable(r) ==
    /\ r.tag[1] \in {"s", "t"} /\ r.tag[2] \in {"r", "p"}
    /\ r.acc # << >> /\ \A i \in 1..Len(r.acc) : r.acc[i] \in WordChars
    /\ \A i \in 1..Len(r.desc) : r.desc[i] # NL

AllOf(f, P(_)) == \A i \in 1..Len(f) : P(f[i])

\* what iter_ids and id_exists report for a file of N records
ReportsAll(f) ==
    /\ ret.op = "iter_ids" =>
          /\ Len(ret.res.val) = Len(f)
          /\ {ret.res.val[i].k : i \in 1..Len(ret.res.val)} = Accs(f)
          /\ \A i \in 1..Len(ret.res.val) : ret.res.val[i].i = i - 1
    /\ ret.op = "id_exists" /\ ret.arg \in Accs(f) => ret.res.val = TRUE

\* C1 as stated: for every archive of N well-formed records (two-letter
\* tag, accession any non-whitespace token) with distinct accessions, after
\* read iter_ids yields exactly the N accessions paired with 0..N-1 and
\* id_exists is True for each.
C1_AnyTokenIndexed ==
    (reads = 1 /\ AllOf(file, WellFormed) /\ DistinctAccs(file)) => ReportsAll(file)

\* C1 amended: the same for archives whose records carry a tag in [st][rp]
\* and an accession made of word characters, read into a new FastaFile.
C1_WordAccessionIndexed ==
    (reads = 1 /\ AllOf(file, WellFormed) /\ AllOf(file, Indexable) /\ DistinctAccs(file))
        => ReportsAll(file)

C1_Witness ==
    /\ reads = 1 /\ Len(file) = 3
    /\ AllOf(file, WellFormed) /\ AllOf(file, Indexable) /\ DistinctAccs(file)
    /\ ret.op = "iter_ids" /\ Len(ret.res.val) = 3

\* C2: for an accession that is not a key of the offset table id_exists
\* returns False, get_entry and get_sequence raise KeyError, and the call
\* leaves the buffer and the offset table unchanged.
C2_NotFound ==
    [][ (ret'.arg \notin Keys(fasta) /\ ret' # ret) =>
          /\ ret'.op = "id_exists" => ret'.res = Return(FALSE)
          /\ ret'.op \in {"get_entry", "get_sequence"} =>
                ret'.res.exc = "KeyError" /\ fasta' = fasta ]_vars

C2_Witness ==
    /\ reads = 1 /\ fasta._id_offsets # << >>
    /\ ret.op = "get_sequence" /\ ret.arg \notin Keys(fasta)
    /\ ret.res.exc = "KeyError"

\* C3: writing every item of iter_items as ">sp|accession|description",
\* newline, format_sequence(seq, w), newline, and reading that file into a
\* new FastaFile gives the same accessions and, for each, the same sequence
\* from get_sequence, for w absent or w >= 1.
C3_RoundTrip ==
    ret.op = "read_formatted" =>
        /\ ret.res.exc = "none"
        /\ Keys(test_reader) = Keys(fasta)
        /\ \A a \in Keys(fasta) :
              /\ get_sequence(fasta, a).exc = "none"
              /\ get_sequence(test_reader, a) = get_sequence(fasta, a)

C3_Witness ==
    /\ ret.op = "read_formatted" /\ ret.w = 1
    /\ Cardinality(Keys(test_reader)) = 2
    /\ \E a \in Keys(fasta) : Len(get_sequence(test_reader, a).val) = 2

\* C4: format_sequence(seq, w), w >= 1, has no leading or trailing line
\* break, every line but the last is exactly w long, the last line is 1..w
\* long when the stripped sequence is not empty, and without its whitespace
\* the result is seq without its whitespace; without a width the result is
\* seq without its whitespace.
RECURSIVE WithoutWhitespace(_)
WithoutWhitespace(s) ==
    IF s = << >> THEN << >>
    ELSE (IF s[1] \in Spaces THEN << >> ELSE <<s[1]>>) \o WithoutWhitespace(Tail(s))

\* str.split(sep = NL)
RECURSIVE Lines(_)
Lines(s) ==
    IF \A i \in 1..Len(s) : s[i] # NL THEN <<s>>
    ELSE LET n == CHOOSE i \in 1..Len(s) : s[i] = NL /\ \A j \in 1..(i - 1) : s[j] # NL
         IN <<SubSeq(s, 1, n - 1)>> \o Lines(SubSeq(s, n + 1, Len(s)))

C4_FormatSequence ==
    ret.op = "format_sequence" =>
        LET out == ret.res.val
            bare == WithoutWhitespace(seq_in)
            ls == Lines(out)
        IN IF ret.w = 0 THEN out = bare
           ELSE /\ out # << >> => out[1] # NL /\ out[Len(out)] # NL
                /\ \A i \in 1..(Len(ls) - 1) : Len(ls[i]) = ret.w
                /\ bare # << >> => Len(ls[Len(ls)]) \in 1..ret.w
                /\ WithoutWhitespace(out) = bare

C4_Witness ==
    /\ ret.op = "format_sequence" /\ ret.w = 2
    /\ Len(seq_in) = 5 /\ Len(WithoutWhitespace(seq_in)) = 3
    /\ Len(Lines(ret.res.val)) = 2

\* C8 as stated: after any sequence of read calls every key of the offset
\* table maps to a span whose slice of the buffer matches entry_re with that
\* key as accession, and get_entry, get_sequence and iter_items never raise
\* the assertion for a key that exists.
C8_TableInSync ==
    /\ \A i \in 1..Len(fasta._id_offsets) :
          LET e == fasta._id_offsets[i]
              m == search(Slice(fasta._fbuff, e.v[1], e.v[2]))
          IN m.ok /\ m.g1 = e.k
    /\ ret.op \in {"get_entry", "get_sequence", "iter_items"} =>
          ret.res.exc # "AssertionError"

-----------------------------------------------------------------------------
(* Spans and order of the table *)

\* the records of f that the scan stores under accession a
Occurrences(f, a) == {n \in 1..Len(f) : Indexable(f[n]) /\ f[n].acc = a}
MinOf(S) == CHOOSE n \in S : \A m \in S : n <= m
MaxOf(S) == CHOOSE n \in S : \A m \in S : n >= m

SpansDisjoint ==
    \A i, j \in 1..Len(fasta._id_offsets) :
        i # j => \/ fasta._id_offsets[i].v[2] <= fasta._id_offsets[j].v[1]
                 \/ fasta._id_offsets[j].v[2] <= fasta._id_offsets[i].v[1]

\* every span starts at the ">" of a header carrying its key and stops
\* before the next record
SpansAtHeaders ==
    \A i \in 1..Len(fasta._id_offsets) :
        LET e == fasta._id_offsets[i] IN
        /\ e.v[1] < e.v[2]
        /\ fasta._fbuff[e.v[1] + 1] = ">"
        /\ \E n \in 1..Len(file) :
              /\ file[n].acc = e.k
              /\ e.v[1] = Begin(file, n)
              /\ e.v[2] <= Begin(file, n + 1)

\* the accessions in the order iter_ids yields them
Yielded == [i \in 1..Len(ret.res.val) |-> ret.res.val[i].k]

BeginsIncrease ==
    \A i, j \in 1..Len(Yielded) :
        i < j => SpanOf(fasta, Yielded[i])[1] < SpanOf(fasta, Yielded[j])[1]

FirstRecordsIncrease ==
    \A i, j \in 1..Len(Yielded) :
        i < j => MinOf(Occurrences(file, Yielded[i])) < MinOf(Occurrences(file, Yielded[j]))

NoSharedAccession ==
    \A a \in Accs(file) : Cardinality(Occurrences(file, a)) <= 1

\* C9 as stated: after read over any buffer, shared accessions included,
\* the spans are pairwise disjoint, each begins at the ">" of a header and
\* excludes the preceding record, and in the order of iter_ids their begin
\* offsets strictly increase.
C9_BeginsIncrease ==
    reads = 1 =>
        /\ SpansDisjoint
        /\ SpansAtHeaders
        /\ ret.op = "iter_ids" => BeginsIncrease

\* C9 amended: the spans are pairwise disjoint, each begins at the ">" of a
\* header and excludes the other records; iter_ids yields the accessions in
\* the order of their first record in the buffer, so the begin offsets
\* strictly increase when no accession is shared.
C9_FirstOccurrenceOrder ==
    reads = 1 =>
        /\ SpansDisjoint
        /\ SpansAtHeaders
        /\ ret.op = "iter_ids" =>
              /\ FirstRecordsIncrease
              /\ NoSharedAccession => BeginsIncrease

C9_Witness ==
    /\ reads = 1 /\ ret.op = "iter_ids" /\ Len(Yielded) = 2
    /\ ~ NoSharedAccession
    /\ SpanOf(fasta, Yielded[1])[1] > SpanOf(fasta, Yielded[2])[1]

\* C10: when two or more records share an accession, the table holds one
\* entry for it whose span is that of the last of them, get_entry and
\* get_sequence return the description and the whitespace-stripped sequence
\* of that last record, and iter_ids yields the accession once.
C10_LastWriteWins ==
    reads = 1 =>
        \A a \in Accs(file) :
            LET occ == Occurrences(file, a)
                last == MaxOf(occ)
            IN (Cardinality(occ) >= 2 /\ WellFormed(file[last])) =>
                /\ Cardinality({i \in 1..Len(fasta._id_offsets) : fasta._id_offsets[i].k = a}) = 1
                /\ SpanOf(fasta, a) = <<Begin(file, last), Begin(file, last + 1)>>
                /\ ret.op = "get_entry" /\ ret.arg = a =>
                      ret.res = Return([description |-> file[last].desc,
                                        seq |-> WithoutWhitespace(file[last].body)])
                /\ ret.op = "get_sequence" /\ ret.arg = a =>
                      ret.res = Return(WithoutWhitespace(file[last].body))
                /\ ret.op = "iter_ids" =>
                      Cardinality({i \in 1..Len(Yielded) : Yielded[i] = a}) = 1

C10_Witness ==
    /\ reads = 1 /\ ret.op = "get_entry" /\ ret.res.exc = "none"
    /\ Cardinality(Occurrences(file, ret.arg)) >= 2
    /\ \E n \in Occurrences(file, ret.arg) : file[n].desc # ret.res.val.description

-----------------------------------------------------------------------------
(* The subsetting run *)

\* the ids of a list, each once, in the order of their first occurrence
RECURSIVE FirstOccurrences(_)
FirstOccurrences(ids) ==
    IF ids = << >> THEN << >>
    ELSE LET init == FirstOccurrences(SubSeq(ids, 1, Len(ids) - 1))
             x == ids[Len(ids)]
         IN IF \E i \in 1..Len(init) : init[i] = x THEN init ELSE Append(init, x)

Missing == {i \in 1..Len(select_ids) : select_ids[i] \notin Keys(fasta)}

\* C5 as stated: the entries main extracts hold every requested accession
\* once, in first-occurrence order.
C5_Deduplicated ==
    mpc = "extracted" =>
        [i \in 1..Len(entries) |-> entries[i][1]] = FirstOccurrences(select_ids)

RECURSIVE ExpectedOutput(_, _)
ExpectedOutput(ids, multi_line) ==
    IF ids = << >> THEN << >>
    ELSE LET e == get_entry(fasta, ids[1]).val IN
         <<">", "s", "p", "|">> \o ids[1] \o <<"|">> \o e.description \o <<NL>>
         \o (IF multi_line THEN format_sequence(e.seq, WrapWidth) ELSE e.seq) \o <<NL>>
         \o ExpectedOutput(Tail(ids), multi_line)

\* C6 as stated: when every selected accession is in the index and the list
\* is not empty, main completes and the output file holds one record
\* ">sp|accession|description", newline, sequence, newline per selected
\* accession, in the order of the resolved list.
C6_RecordsWritten ==
    (mpc \in {"done", "failed"} /\ select_ids # << >> /\ Missing = {}) =>
        /\ mpc = "done"
        /\ ofile.exists
        /\ ofile.text = ExpectedOutput(FirstOccurrences(select_ids), args.multiLine)

\* C7: when a requested accession is not in the index, main ends with the
\* KeyError of get_entry for such an accession, and the output file is not
\* opened, created or truncated and holds no record.
C7_AllOrNothing ==
    (mpc \in {"extracted", "done", "failed"} /\ Missing # {}) =>
        /\ mpc = "failed"
        /\ ret.res.exc = "KeyError"
        /\ \E i \in Missing : ret.arg = select_ids[i]
        /\ ofile.opens = 0
        /\ ofile \in {NoFile, OldFile}

C7_Witness ==
    /\ mpc = "failed" /\ ret.res.exc = "KeyError"
    /\ Len(select_ids) = 3 /\ Cardinality(Missing) = 1
    /\ select_ids[1] \in Keys(fasta)
    /\ ofile = OldFile

====
